---- MODULE Spec2Model ----
(***************************************************************************)
(* csvtoyml.py: main() converts a CSV file with a header row into a YAML   *)
(* document, a sequence of mappings.  The model follows main() statement   *)
(* by statement.  The file system is the two paths given on the command    *)
(* line; the text of a cell is opaque to the program and is modelled by    *)
(* its position <<row, column>> in the file, so that every cell is         *)
(* distinguishable.  The source file is modelled after csv.reader's        *)
(* tokenisation: a header line (a list of names) and data lines (lists of  *)
(* cells, the empty list for a blank line).  No other process touches the  *)
(* two paths while main() runs.                                            *)
(***************************************************************************)
EXTENDS Integers, Sequences, FiniteSets

VARIABLES argc, srcKind, srcFile, dstKind, dstData, dstInit,
          pc, content, lineNo, srcOpen, srcOpened, dstOpen, dstOpened,
          events, exitCode

vars == <<argc, srcKind, srcFile, dstKind, dstData, dstInit,
          pc, content, lineNo, srcOpen, srcOpened, dstOpen, dstOpened,
          events, exitCode>>

(* ------------------------------ bounds --------------------------------- *)

\* len(sys.argv) ranges over 1..MaxArgc (the program name counts).
MaxArgc == 4
\* Data lines of the source file.
MaxRows == 3
\* Columns of the header and cells of a data line.
MaxCols == 2

(* ----------------------------- inputs ---------------------------------- *)

FieldNames == {"name", "age", "city"}

\* Python compares str keys by code point: "age" < "city" < "name".
Rank(k) == CASE k = "age" -> 1 [] k = "city" -> 2 [] k = "name" -> 3

\* The key csv.DictReader files surplus cells under (restkey = None).
None == "<None>"

SeqsUpTo(S, n) == UNION {[1..k -> S] : k \in 0..n}

Range(s) == {s[i] : i \in DOMAIN s}

Min(a, b) == IF a < b THEN a ELSE b

\* A data line of n cells at line i of the data: the text of each cell is
\* its position.
RowOf(i, n) == [j \in 1..n |-> <<i, j>>]

SourceFiles ==
    {[empty |-> TRUE, header |-> <<>>, rows |-> <<>>]} \cup
    {[empty |-> FALSE, header |-> h,
      rows |-> [i \in DOMAIN lens |-> RowOf(i, lens[i])]] :
        h \in SeqsUpTo(FieldNames, MaxCols),
        lens \in SeqsUpTo(0..MaxCols, MaxRows)}

NoFile == [empty |-> TRUE, header |-> <<>>, rows |-> <<>>]

\* A value of a record: a cell's text, None (restval), or the list of
\* surplus cells.
StrVal(c) == <<"str", <<c>>>>
NoneVal == <<"none", <<>>>>
ListVal(cs) == <<"list", cs>>

\* What a destination file that existed before the run holds.
StaleDoc == << << <<"stale", NoneVal>> >> >>

(* ----------------------------- output ---------------------------------- *)

\* Mutation: the line goes to sys.stderr.
PrintLine_ToStderr(ev, line, n) == Append(ev, <<"stderr", line, n>>)

\* An event is <<what, text, number>>.
\* print(...): one line on sys.stdout (print's default file).
PrintLine(ev, line, n) == Append(ev, <<"stdout", line, n>>)

\* sys.exit(code), or main() returning (code 0).
Exit(ev, code) == Append(ev, <<"exit", "", code>>)

\* os.remove(output_file)
Removed(ev) == Append(ev, <<"remove", "", 0>>)

Stdout == SelectSeq(events, LAMBDA e : e[1] = "stdout")
Stderr == SelectSeq(events, LAMBDA e : e[1] = "stderr")


(* --------------------------- csv.DictReader ---------------------------- *)

Keys(d) == {d[i][1] : i \in DOMAIN d}

\* d[k] = v on a dict kept in insertion order.
DictSet(d, k, v) ==
    IF k \in Keys(d)
    THEN [i \in DOMAIN d |-> IF d[i][1] = k THEN <<k, v>> ELSE d[i]]
    ELSE Append(d, <<k, v>>)

\* dict(zip(fieldnames, row)), over the first n pairs.
RECURSIVE ZipDict(_, _, _)
ZipDict(fn, row, n) ==
    IF n = 0 THEN <<>>
    ELSE DictSet(ZipDict(fn, row, n - 1), fn[n], StrVal(row[n]))

\* for key in fieldnames[lr:]: d[key] = restval
RECURSIVE FillRest(_, _, _)
FillRest(d, fn, i) ==
    IF i > Len(fn) THEN d
    ELSE FillRest(DictSet(d, fn[i], NoneVal), fn, i + 1)

\* Mutation: the last column is not paired with its cell.
DictRow_DropsLastColumn(fn, row) ==
    LET n == Min(Len(fn), Len(row))
    IN  IF n = 0 THEN <<>> ELSE ZipDict(fn, row, n - 1)

\* The record DictReader.__next__ builds from one non-blank line.
DictRow(fn, row) ==
    LET lf == Len(fn)
        lr == Len(row)
        d  == ZipDict(fn, row, Min(lf, lr))
    IN  IF lf < lr THEN DictSet(d, None, ListVal(SubSeq(row, lf + 1, lr)))
        ELSE IF lf > lr THEN FillRest(d, fn, lr + 1)
        ELSE d

\* The first non-blank data line after line i, or 0 (StopIteration).
NextRow(rows, i) ==
    LET later == {k \in DOMAIN rows : k > i /\ rows[k] # <<>>}
    IN  IF later = {} THEN 0
        ELSE CHOOSE k \in later : \A m \in later : k <= m

(* ------------------------------ yaml.dump ------------------------------ *)

\* sorted(mapping.items()) raises TypeError, which the representer
\* swallows, when a None key meets a str key.
Sortable(d) == ~(None \in Keys(d) /\ Len(d) > 1)

SortedItems(d) ==
    [i \in DOMAIN d |->
        d[CHOOSE j \in DOMAIN d :
            Cardinality({k \in DOMAIN d :
                Rank(d[k][1]) < Rank(d[j][1])}) = i - 1]]

\* One entry of the document: the mapping's items as the representer emits
\* them (sort_keys is left at its default, True).
RepresentMapping(d) ==
    IF Len(d) > 1 /\ Sortable(d) THEN SortedItems(d) ELSE d

\* The whole document for a Dataset.
Serialize(data) == [i \in DOMAIN data |-> RepresentMapping(data[i])]

(* ------------------------------ Init ----------------------------------- *)

Init ==
    /\ argc \in 1..MaxArgc
    /\ srcKind \in {"none", "file", "dir"}
    /\ srcFile \in (IF srcKind = "file" THEN SourceFiles ELSE {NoFile})
    /\ dstKind \in {"none", "file", "dir"}
    /\ dstData \in (IF dstKind = "file" THEN {<<>>, StaleDoc} ELSE {<<>>})
    /\ dstInit = <<dstKind, dstData>>
    /\ pc = "check_args"
    /\ content = <<>>
    /\ lineNo = 0
    /\ srcOpen = FALSE
    /\ srcOpened = FALSE
    /\ dstOpen = FALSE
    /\ dstOpened = FALSE
    /\ events = <<>>
    /\ exitCode = -1

(* ----------------------------- main() ---------------------------------- *)

fs == <<srcKind, srcFile, dstKind, dstData, dstInit>>
handles == <<srcOpen, srcOpened, dstOpen, dstOpened>>

\* print(message); sys.exit(1)
Fail(line) ==
    /\ events' = Exit(PrintLine(events, line, 0), 1)
    /\ exitCode' = 1
    /\ pc' = "exited"

\* if len(sys.argv) != 3
CheckArgs ==
    /\ pc = "check_args"
    /\ IF argc # 3
       THEN Fail("usage")
       ELSE /\ pc' = "check_input"
            /\ UNCHANGED <<events, exitCode>>
    /\ UNCHANGED <<fs, argc, handles, content, lineNo>>

\* Mutation: os.path.exists in place of os.path.isfile.
CheckInput_Exists ==
    /\ pc = "check_input"
    /\ IF srcKind = "none"
       THEN Fail("input does not exist")
       ELSE /\ pc' = "check_output"
            /\ UNCHANGED <<events, exitCode>>
    /\ UNCHANGED <<fs, argc, handles, content, lineNo>>

\* if not os.path.isfile(input_file)
CheckInput ==
    /\ pc = "check_input"
    /\ IF srcKind # "file"
       THEN Fail("input does not exist")
       ELSE /\ pc' = "check_output"
            /\ UNCHANGED <<events, exitCode>>
    /\ UNCHANGED <<fs, argc, handles, content, lineNo>>

\* Mutation: os.path.isfile in place of os.path.exists.
CheckOutput_IsFile ==
    /\ pc = "check_output"
    /\ IF dstKind = "file"
       THEN Fail("output already exists")
       ELSE /\ pc' = "open_input"
            /\ UNCHANGED <<events, exitCode>>
    /\ UNCHANGED <<fs, argc, handles, content, lineNo>>

\* if os.path.exists(output_file)
CheckOutput ==
    /\ pc = "check_output"
    /\ IF dstKind # "none"
       THEN Fail("output already exists")
       ELSE /\ pc' = "open_input"
            /\ UNCHANGED <<events, exitCode>>
    /\ UNCHANGED <<fs, argc, handles, content, lineNo>>

\* open(input_file, 'r', encoding='utf-8') succeeds
OpenInput ==
    /\ pc = "open_input"
    /\ srcOpen' = TRUE
    /\ srcOpened' = TRUE
    /\ pc' = "read"
    /\ UNCHANGED <<fs, argc, dstOpen, dstOpened, content, lineNo, events,
                   exitCode>>

\* Mutation: the record is put in front of those read before it.
ReadRow_Prepends ==
    /\ pc = "read"
    /\ LET k == NextRow(srcFile.rows, lineNo)
       IN  IF k = 0
           THEN /\ srcOpen' = FALSE
                /\ pc' = "check_data"
                /\ UNCHANGED <<content, lineNo>>
           ELSE /\ content' = <<DictRow(srcFile.header, srcFile.rows[k])>>
                                  \o content
                /\ lineNo' = k
                /\ UNCHANGED <<srcOpen, pc>>
    /\ UNCHANGED <<fs, argc, srcOpened, dstOpen, dstOpened, events, exitCode>>

\* One step of list(reader): DictReader.__next__ skips blank lines and
\* appends the next record, or the iteration stops and the with block
\* closes the file.
ReadRow ==
    /\ pc = "read"
    /\ LET k == NextRow(srcFile.rows, lineNo)
       IN  IF k = 0
           THEN /\ srcOpen' = FALSE
                /\ pc' = "check_data"
                /\ UNCHANGED <<content, lineNo>>
           ELSE /\ content' = Append(content,
                                     DictRow(srcFile.header, srcFile.rows[k]))
                /\ lineNo' = k
                /\ UNCHANGED <<srcOpen, pc>>
    /\ UNCHANGED <<fs, argc, srcOpened, dstOpen, dstOpened, events, exitCode>>

\* open() or the iteration raises (OSError, UnicodeDecodeError, csv.Error):
\* the with block closes the file and the except clause reports.
ReadError ==
    /\ pc \in {"open_input", "read"}
    /\ srcOpen' = FALSE
    /\ Fail("error reading")
    /\ UNCHANGED <<fs, argc, srcOpened, dstOpen, dstOpened, content, lineNo>>

\* Mutation: the emptiness check is missing.
CheckData_Missing ==
    /\ pc = "check_data"
    /\ pc' = "open_output"
    /\ UNCHANGED <<fs, argc, handles, content, lineNo, events, exitCode>>

\* if not content
CheckData ==
    /\ pc = "check_data"
    /\ IF content = <<>>
       THEN Fail("no data")
       ELSE /\ pc' = "open_output"
            /\ UNCHANGED <<events, exitCode>>
    /\ UNCHANGED <<fs, argc, handles, content, lineNo>>

\* open(output_file, 'w', encoding='utf-8') succeeds: the file is created
\* empty.
OpenOutput ==
    /\ pc = "open_output"
    /\ dstKind' = "file"
    /\ dstData' = <<>>
    /\ dstOpen' = TRUE
    /\ dstOpened' = TRUE
    /\ pc' = "dump"
    /\ UNCHANGED <<argc, srcKind, srcFile, dstInit, srcOpen, srcOpened,
                   content, lineNo, events, exitCode>>

\* yaml.dump streams the document to the file entry by entry; after the
\* last entry the with block closes the file.
DumpEntry ==
    /\ pc = "dump"
    /\ LET doc == Serialize(content)
           n   == Len(dstData)
       IN  IF n < Len(doc)
           THEN /\ dstData' = Append(dstData, doc[n + 1])
                /\ UNCHANGED <<dstOpen, pc>>
           ELSE /\ dstOpen' = FALSE
                /\ pc' = "report"
                /\ UNCHANGED dstData
    /\ UNCHANGED <<argc, srcKind, srcFile, dstKind, dstInit, srcOpen,
                   srcOpened, dstOpened, content, lineNo, events, exitCode>>

\* open(), a write or the closing flush raises: the with block closes the
\* file, whatever was written stays, and control enters the except clause.
WriteError ==
    /\ pc \in {"open_output", "dump"}
    /\ dstOpen' = FALSE
    /\ pc' = "write_failed"
    /\ UNCHANGED <<fs, argc, srcOpen, srcOpened, dstOpened, content, lineNo,
                   events, exitCode>>

\* Mutation: the partial file is removed before the message is printed.
PrintWriteError_AfterRemoval ==
    /\ pc = "write_failed"
    /\ IF dstKind # "none"
       THEN /\ dstKind' = "none"
            /\ dstData' = <<>>
            /\ events' = PrintLine(Removed(events), "error writing", 0)
       ELSE /\ events' = PrintLine(events, "error writing", 0)
            /\ UNCHANGED <<dstKind, dstData>>
    /\ pc' = "cleanup"
    /\ UNCHANGED <<argc, srcKind, srcFile, dstInit, handles, content, lineNo,
                   exitCode>>

\* print("Error writing YAML file: ...")
PrintWriteError ==
    /\ pc = "write_failed"
    /\ events' = PrintLine(events, "error writing", 0)
    /\ pc' = "cleanup"
    /\ UNCHANGED <<fs, argc, handles, content, lineNo, exitCode>>

\* Mutation: the except clause exits without removing the file.
Cleanup_NoRemove ==
    /\ pc = "cleanup"
    /\ events' = Exit(events, 1)
    /\ exitCode' = 1
    /\ pc' = "exited"
    /\ UNCHANGED <<fs, argc, handles, content, lineNo>>

\* if os.path.exists(output_file): os.remove(output_file); sys.exit(1)
\* The file is one this run created a moment ago in a directory it could
\* write to, so os.remove succeeds.
Cleanup ==
    /\ pc = "cleanup"
    /\ IF dstKind # "none"
       THEN /\ dstKind' = "none"
            /\ dstData' = <<>>
            /\ events' = Exit(Removed(events), 1)
       ELSE /\ events' = Exit(events, 1)
            /\ UNCHANGED <<dstKind, dstData>>
    /\ exitCode' = 1
    /\ pc' = "exited"
    /\ UNCHANGED <<argc, srcKind, srcFile, dstInit, handles, content, lineNo>>

\* Mutation: the count printed is that of the data lines, blank ones too.
Report_CountsLines ==
    /\ pc = "report"
    /\ events' = Exit(PrintLine(PrintLine(events, "conversion successful", 0),
                                "rows converted", Len(srcFile.rows)), 0)
    /\ exitCode' = 0
    /\ pc' = "exited"
    /\ UNCHANGED <<fs, argc, handles, content, lineNo>>

\* The two closing prints; main() returns and the interpreter exits with 0.
Report ==
    /\ pc = "report"
    /\ events' = Exit(PrintLine(PrintLine(events, "conversion successful", 0),
                            "rows converted", Len(content)), 0)
    /\ exitCode' = 0
    /\ pc' = "exited"
    /\ UNCHANGED <<fs, argc, handles, content, lineNo>>

Next ==
    \/ CheckArgs
    \/ CheckInput
    \/ CheckOutput
    \/ OpenInput
    \/ ReadRow
    \/ ReadError
    \/ CheckData
    \/ OpenOutput
    \/ DumpEntry
    \/ WriteError
    \/ PrintWriteError
    \/ Cleanup
    \/ Report

Spec == Init /\ [][Next]_vars

(* --------------------- vocabulary of the properties --------------------- *)

Exited == pc = "exited"

DstNow == <<dstKind, dstData>>

NonBlank(rows) == SelectSeq(rows, LAMBDA r : r # <<>>)

\* The Dataset of the source file: one record per non-blank data line, in
\* the file's order.
Dataset ==
    LET rs == NonBlank(srcFile.rows)
    IN  [i \in DOMAIN rs |-> DictRow(srcFile.header, rs[i])]

Printed(line) == \E i \in DOMAIN Stdout : Stdout[i][2] = line

Happened(what) == \E i \in DOMAIN events : events[i][1] = what

\* Position of the first event of a kind (0 when there is none).
FirstAt(what) ==
    IF Happened(what)
    THEN CHOOSE i \in DOMAIN events :
            /\ events[i][1] = what
            /\ \A j \in DOMAIN events : events[j][1] = what => i <= j
    ELSE 0

\* Position of the line "Error writing YAML file" among the events.
WriteErrorAt ==
    IF Printed("error writing")
    THEN CHOOSE i \in DOMAIN events :
            events[i][1] = "stdout" /\ events[i][2] = "error writing"
    ELSE 0

KeysInOrder(entry) == [i \in DOMAIN entry |-> entry[i][1]]

\* The data lines whose cells an entry of a document carries.
RowsOf(entry) ==
    UNION {{entry[i][2][2][j][1] : j \in DOMAIN entry[i][2][2]} :
              i \in DOMAIN entry}

Distinct(s) == \A i, j \in DOMAIN s : i # j => s[i] # s[j]

\* Every data line has exactly one cell per header field.
WellFormed ==
    /\ ~srcFile.empty
    /\ Len(srcFile.header) >= 1
    /\ \A i \in DOMAIN srcFile.rows :
          Len(srcFile.rows[i]) = Len(srcFile.header)

ErrorLines ==
    {"usage", "input does not exist", "output already exists",
     "error reading", "no data", "error writing"}

(* ------------------------------- C1 ------------------------------------ *)

C2_NoOverwrite ==
    (argc = 3 /\ srcKind = "file" /\ dstInit[1] # "none") =>
        /\ ~srcOpened
        /\ ~dstOpened
        /\ DstNow = dstInit
        /\ Exited => /\ exitCode = 1
                     /\ Len(Stdout) = 1
                     /\ Stdout[1][2] = "output already exists"

\* The run ended on a destination that existed as an empty file.
C2_Witness ==
    /\ Exited
    /\ argc = 3
    /\ srcKind = "file"
    /\ Len(Dataset) >= 1
    /\ dstInit = <<"file", <<>>>>

(* ------------------------------- C3 ------------------------------------ *)

\* C3: a source file that yields zero data records (empty, header only, or
\* nothing but blank lines after the header) makes the run fail with the
\* empty-dataset error and a nonzero status, and the destination file is
\* never created or opened.
C3_EmptyDataset ==
    (argc = 3 /\ srcKind = "file" /\ dstInit[1] = "none" /\ Dataset = <<>>) =>
        /\ ~dstOpened
        /\ dstKind = "none"
        /\ (Exited /\ ~Printed("error reading")) =>
              /\ exitCode = 1
              /\ Len(Stdout) = 1
              /\ Stdout[1][2] = "no data"

\* A header-only file was read to its end and the run ended.
C3_Witness ==
    /\ Exited
    /\ argc = 3
    /\ srcKind = "file"
    /\ dstInit[1] = "none"
    /\ ~srcFile.empty
    /\ Len(srcFile.header) = 2
    /\ srcFile.rows = <<>>
    /\ Printed("no data")

(* ------------------------------- C8 ------------------------------------ *)

\* C8: a run that fails one of the three checks of the Input Resolver
\* (argument count, source is a regular file, destination does not exist)
\* has opened neither file and has left the destination as it was; the
\* checks apply in that order, so the first failing one names the error.
C8_ResolverPure ==
    (argc # 3 \/ srcKind # "file" \/ dstInit[1] # "none") =>
        /\ ~srcOpened
        /\ ~dstOpened
        /\ ~srcOpen
        /\ ~dstOpen
        /\ DstNow = dstInit
        /\ content = <<>>
        /\ Exited =>
              /\ exitCode = 1
              /\ Len(Stdout) = 1
              /\ Stdout[1][2] =
                    IF argc # 3 THEN "usage"
                    ELSE IF srcKind # "file" THEN "input does not exist"
                    ELSE "output already exists"

\* The source path is a directory and the destination exists: the source
\* check is the one that fails.
C8_Witness ==
    /\ Exited
    /\ argc = 3
    /\ srcKind = "dir"
    /\ dstInit[1] = "file"
    /\ Printed("input does not exist")

(* ------------------------------- C4 ------------------------------------ *)

\* C4: for a well-formed input with N >= 1 data rows, a successful run
\* writes a document of exactly N entries, and the keys of every entry are
\* exactly the header's field names, none missing, none extra, none twice.
C4_ShapeOfOutput ==
    (Exited /\ exitCode = 0 /\ WellFormed) =>
        /\ Len(srcFile.rows) >= 1
        /\ dstKind = "file"
        /\ Len(dstData) = Len(srcFile.rows)
        /\ \A k \in DOMAIN dstData :
              /\ Keys(dstData[k]) = Range(srcFile.header)
              /\ Len(dstData[k]) = Cardinality(Range(srcFile.header))

\* A successful run on two rows under a header of two different names.
C4_Witness ==
    /\ Exited
    /\ exitCode = 0
    /\ WellFormed
    /\ Len(srcFile.rows) = 2
    /\ Len(srcFile.header) = 2
    /\ Distinct(srcFile.header)

(* ------------------------------- C9 ------------------------------------ *)

\* C9: the order of records is the order of the data rows, in the Dataset
\* and in the written document: at every moment the records read so far
\* and the entries written so far are the leading records of the file's
\* Dataset, and an earlier entry carries cells of earlier lines only.
C9_RowOrder ==
    /\ Len(content) <= Len(Dataset)
    /\ \A k \in DOMAIN content : content[k] = Dataset[k]
    /\ dstOpened =>
          /\ Len(dstData) <= Len(Dataset)
          /\ \A k \in DOMAIN dstData :
                dstData[k] = RepresentMapping(Dataset[k])
          /\ \A k, l \in DOMAIN dstData :
                k < l => \A a \in RowsOf(dstData[k]), b \in RowsOf(dstData[l]) :
                            a < b
    /\ \A k, l \in DOMAIN content :
          k < l => \A a \in RowsOf(content[k]), b \in RowsOf(content[l]) : a < b
    /\ (Exited /\ exitCode = 0) => Len(dstData) = Len(Dataset)

\* A successful run that wrote two entries, each carrying cells.
C9_Witness ==
    /\ Exited
    /\ exitCode = 0
    /\ Len(dstData) >= 2
    /\ \A k \in DOMAIN dstData : RowsOf(dstData[k]) # {}

(* ------------------------------- C10 ----------------------------------- *)

\* C10: in every entry of the written document the keys appear in the
\* header's left-to-right column order, whatever the header.
C10_KeyOrder ==
    (Exited /\ exitCode = 0 /\ WellFormed /\ Distinct(srcFile.header)) =>
        \A k \in DOMAIN dstData : KeysInOrder(dstData[k]) = srcFile.header

(* ------------------------------- C5 ------------------------------------ *)

C7_SuccessReport ==
    (Exited /\ exitCode = 0) =>
        /\ Len(Stdout) = 2
        /\ Stdout[1][2] = "conversion successful"
        /\ Stdout[2][2] = "rows converted"
        /\ Stdout[2][3] = Len(dstData)
        /\ Stdout[2][3] = Len(Dataset)
        /\ dstKind = "file"
        /\ dstData = Serialize(Dataset)
        /\ argc = 3
        /\ srcKind = "file"
        /\ dstInit[1] = "none"
        /\ Dataset # <<>>
        /\ ~Happened("remove")
        /\ ~srcOpen
        /\ ~dstOpen

\* A success on a file with two lines after the header, one of them blank.
C7_Witness ==
    /\ Exited
    /\ exitCode = 0
    /\ Len(srcFile.rows) = 2
    /\ Len(Dataset) = 1

====
